---- MODULE Spec2Model ----
(***************************************************************************)
(* Model of src/src/main.rs: the generic 2D vector types Vec2<T>,          *)
(* UnitVec2<F> and Player<T, F>, the Vec2Like operations length, distance  *)
(* and abs, and the fallible normalization that builds a UnitVec2.         *)
(*                                                                         *)
(* Numbers.  A component of type T and a float of type F are both records  *)
(* [c, n]:                                                                 *)
(*   c = "int"  an integer component, n its value;                         *)
(*   c = "fin"  a finite float, n its value counted in units of the        *)
(*              smallest subnormal, 2^-FracBits (so 1.0 is n = Unit);      *)
(*   c = "inf"  an infinity, n = 1 or -1;   c = "nan"  a NaN, n = 0.       *)
(* F is a binary floating-point format with MantBits significant bits,     *)
(* gradual underflow, round-to-nearest-even and overflow to infinity: the  *)
(* arithmetic of f32/f64 at a width TLC can enumerate.  The sign of a      *)
(* float zero is not kept: -0.0 == 0.0 in Rust, and no operation of the    *)
(* program divides by a zero that could be negative.                       *)
(*                                                                         *)
(* Component types T:                                                      *)
(*   "i"   a signed two's-complement integer of IntBits bits (i8, isize);  *)
(*   "u"   an unsigned integer of IntBits bits (u8); as for i8 and u8 with *)
(*         f32, the squares of both integer types stay finite in F;        *)
(*   "f"   the float format F itself (T = F, as in Vec2<f32> -> f32);      *)
(*   "ext" another Scalar, a wide integer whose NumCast conversion         *)
(*         returns None for a value outside F's finite range.              *)
(***************************************************************************)
EXTENDS Integers, FiniteSets, Sequences, TLC

\* ------------------------------------------------------------- bounds
\* Width in bits of the integer component types "i" and "u".
IntBits == 3
\* Significant bits of the float format F.
MantBits == 4
\* The smallest positive float is 2^-FracBits.
FracBits == 5
\* Binades above the subnormal one: the largest finite float is
\* (2^MantBits - 1) * 2^ExpMax units.
ExpMax == 9

RECURSIVE Pow2(_)
Pow2(k) == IF k <= 0 THEN 1 ELSE 2 * Pow2(k - 1)

Abs(n) == IF n < 0 THEN -n ELSE n
Sgn(n) == IF n < 0 THEN -1 ELSE IF n > 0 THEN 1 ELSE 0

\* 1.0 in units.
Unit == Pow2(FracBits)
\* A mantissa is below 2^MantBits.
MantLimit == Pow2(MantBits)
\* The largest finite float, in units.
MaxN == (MantLimit - 1) * Pow2(ExpMax)
\* Above the integer part of the square root of any finite float.
RootLimit == Pow2((MantBits + ExpMax + FracBits) \div 2 + 1)

\* ------------------------------------------------------------- floats
Fin(n) == [c |-> "fin", n |-> n]
Inf(s) == [c |-> "inf", n |-> s]
NaN == [c |-> "nan", n |-> 0]
IntS(n) == [c |-> "int", n |-> n]
NilS == [c |-> "nil", n |-> 0]

\* F::zero()
FZero == Fin(0)

\* m * p, or the next multiple of p when the remainder r of the division by
\* d is above d/2, or is d/2 and m is odd: round to nearest, ties to even.
Nearest(m, r, d, p) ==
  IF 2 * r > d \/ (2 * r = d /\ m % 2 = 1) THEN (m + 1) * p ELSE m * p

\* The magnitude num/den (in units, num >= 0, den > 0) cut to a multiple of
\* p = 2^k, where d = den * p.
RoundAt(num, d, p) == Nearest(num \div d, num % d, d, p)

\* The scale of num/den: the least p = 2^k at which its integer part fits
\* MantBits bits.
RECURSIVE Scale(_, _, _)
Scale(num, den, p) ==
  IF num \div (den * p) < MantLimit THEN p ELSE Scale(num, den, 2 * p)

\* n units with the sign, or the infinity when n is beyond the largest
\* finite float.
Signed(sign, n) ==
  IF n > MaxN THEN Inf(IF sign < 0 THEN -1 ELSE 1) ELSE Fin(sign * n)

RoundScaled(sign, num, den, p) == Signed(sign, RoundAt(num, den * p, p))

\* The float nearest to sign * num/den units.
Round(sign, num, den) == RoundScaled(sign, num, den, Scale(num, den, 1))

\* a + b in F.
FAdd(a, b) ==
  IF a.c = "nan" \/ b.c = "nan" THEN NaN
  ELSE IF a.c = "inf" /\ b.c = "inf" THEN (IF a.n = b.n THEN a ELSE NaN)
  ELSE IF a.c = "inf" THEN a
  ELSE IF b.c = "inf" THEN b
  ELSE Round(Sgn(a.n + b.n), Abs(a.n + b.n), 1)

FNeg(a) == IF a.c = "nan" THEN NaN ELSE [c |-> a.c, n |-> -a.n]

\* a - b in F.
FSub(a, b) == FAdd(a, FNeg(b))

\* a * b in F.
FMul(a, b) ==
  IF a.c = "nan" \/ b.c = "nan" THEN NaN
  ELSE IF a.c = "inf" \/ b.c = "inf"
    THEN (IF a.n = 0 \/ b.n = 0 THEN NaN ELSE Inf(Sgn(a.n) * Sgn(b.n)))
  ELSE Round(Sgn(a.n) * Sgn(b.n), Abs(a.n) * Abs(b.n), Unit)

\* a / b in F.
FDiv(a, b) ==
  IF a.c = "nan" \/ b.c = "nan" THEN NaN
  ELSE IF a.c = "inf" THEN (IF b.c = "inf" THEN NaN
                            ELSE Inf(IF b.n < 0 THEN -a.n ELSE a.n))
  ELSE IF b.c = "inf" THEN FZero
  ELSE IF b.n = 0 THEN (IF a.n = 0 THEN NaN ELSE Inf(Sgn(a.n)))
  ELSE Round(Sgn(a.n) * Sgn(b.n), Abs(a.n) * Unit, Abs(b.n))

\* The integer square root: the largest r in lo..hi with r * r <= x.
RECURSIVE ISqrt(_, _, _)
ISqrt(x, lo, hi) ==
  IF lo >= hi THEN lo
  ELSE IF ((lo + hi + 1) \div 2) * ((lo + hi + 1) \div 2) <= x
    THEN ISqrt(x, (lo + hi + 1) \div 2, hi)
  ELSE ISqrt(x, lo, (lo + hi + 1) \div 2 - 1)

\* The least p = 2^k at which r fits MantBits bits.
RECURSIVE ScaleOf(_, _)
ScaleOf(r, p) == IF r \div p < MantLimit THEN p ELSE ScaleOf(r, 2 * p)

\* sqrt(x) is between m * p and (m + 1) * p: the nearer one, found by
\* comparing x with the square of the midpoint (m + 1/2) * p. The square
\* root of a float is never the midpoint of two floats, so there is no tie.
SqrtPick(x, m, p) ==
  IF 4 * x > (2 * m + 1) * (2 * m + 1) * p * p THEN (m + 1) * p ELSE m * p

SqrtScaled(x, r, p) == SqrtPick(x, r \div p, p)

\* The square root of x, r being its integer part.
SqrtRound(x, r) == SqrtScaled(x, r, ScaleOf(r, 1))

\* a.sqrt() in F, correctly rounded: sqrt(n / Unit) = sqrt(n * Unit) / Unit.
FSqrt(a) ==
  IF a.c = "nan" THEN NaN
  ELSE IF a.c = "inf" THEN (IF a.n > 0 THEN a ELSE NaN)
  ELSE IF a.n < 0 THEN NaN
  ELSE Fin(SqrtRound(a.n * Unit,
                     ISqrt(a.n * Unit, 0, RootLimit)))

\* a == F::zero()
FIsZero(a) == a.c = "fin" /\ a.n = 0
FAbs(a) == IF a.c = "nan" THEN NaN ELSE [c |-> a.c, n |-> Abs(a.n)]

\* ------------------------------------------------- component types T
Types == {"i", "u", "f", "ext"}
\* The types with `T: Signed` among them that the model gives abs() to.
SignedTypes == {"i", "f"}

\* The number of values of an integer type.
IntCount == Pow2(IntBits)
IntMin(T) == IF T = "i" THEN -(IntCount \div 2) ELSE 0
IntMax(T) == IF T = "i" THEN IntCount \div 2 - 1 ELSE IntCount - 1

\* A value of the type "ext" that F cannot represent.
ExtBig == 2 * (MaxN \div Unit)

\* The float components the model enumerates: zero, the smallest
\* subnormal, 1, 3, the largest finite float, their negations, the
\* infinities and NaN.
FloatComps ==
  {Fin(s * n) : s \in {-1, 1}, n \in {0, 1, Unit, 3 * Unit, MaxN}}
    \cup {Inf(1), Inf(-1), NaN}

\* The values of a component type.
Comps(T) ==
  CASE T = "f" -> FloatComps
    [] T = "ext" -> {IntS(n) : n \in {-ExtBig, -1, 0, 1, 3, 4, ExtBig}}
    [] OTHER -> {IntS(n) : n \in IntMin(T)..IntMax(T)}

\* What an operation returns or how it ends. kind is "none", "float" (x),
\* "vec" (a Vec2 x, y), "tuple" (x, y), "unit" (Ok(UnitVec2 {x, y})),
\* "err" (Err(..)) or "panic" (the thread unwinds; why is the message).
Outcome(kind, x, y, why) == [kind |-> kind, x |-> x, y |-> y, why |-> why]
NoOut == Outcome("none", NilS, NilS, "")
Panic(why) == Outcome("panic", NilS, NilS, why)
Some(s) == [ok |-> TRUE, v |-> s, why |-> ""]
Fails(why) == [ok |-> FALSE, v |-> NilS, why |-> why]

\* The value n wrapped into the range of the integer type T.
Wrap(T, n) == ((n - IntMin(T)) % IntCount) + IntMin(T)

\* An integer result n of type T: in range it is the value; out of range
\* the build decides: with overflow checks (debug) the operation panics,
\* without them (release) the value wraps.
IntResult(T, checks, n, why) ==
  IF T = "ext" \/ (IntMin(T) <= n /\ n <= IntMax(T)) THEN Some(IntS(n))
  ELSE IF checks THEN Fails(why)
  ELSE Some(IntS(Wrap(T, n)))

\* a - b in T (std::ops::Sub).
Sub(T, checks, a, b) ==
  IF T = "f" THEN Some(FSub(a, b))
  ELSE IntResult(T, checks, a.n - b.n, "attempt to subtract with overflow")

\* Signed::abs in T: for an integer, -self when negative.
ScalarAbs(T, checks, a) ==
  IF T = "f" THEN Some(FAbs(a))
  ELSE IF a.n < 0 THEN IntResult(T, checks, -a.n, "attempt to negate with overflow")
  ELSE Some(a)

\* F::from(a): NumCast from T to F. An integer goes to the nearest float;
\* the type "ext" answers None for a value beyond F's finite range.
Cast(T, a) ==
  IF T = "f" THEN Some(a)
  ELSE IF T = "ext" /\ Abs(a.n) * Unit > MaxN THEN Fails("cast failed")
  ELSE Some(Round(Sgn(a.n), Abs(a.n) * Unit, 1))

\* ------------------------------------------------------- Vec2, UnitVec2
NoVec == [x |-> NilS, y |-> NilS]

\* Vec2::new
Vec2_new(x, y) == [x |-> x, y |-> y]

\* impl From<(T, T)> for Vec2<T>
from_tuple(t) == Vec2_new(t[1], t[2])

\* impl From<[T; 2]> for Vec2<T>
from_array(a) == Vec2_new(a[1], a[2])

\* impl Into<(T, T)> for Vec2<T>
into_tuple(v) == <<v.x, v.y>>

\* The vectors of component type T.
Vecs(T) == {Vec2_new(x, y) : x \in Comps(T), y \in Comps(T)}

\* .expect("cast failed") on both casts, then (x * x + y * y).sqrt(): x and
\* y are the Options the casts returned (or the panic of the subtraction
\* before them); a None panics.
SqrtOfSquares(x, y) ==
  IF ~x.ok THEN Panic(x.why)
  ELSE IF ~y.ok THEN Panic(y.why)
  ELSE Outcome("float", FSqrt(FAdd(FMul(x.v, x.v), FMul(y.v, y.v))), NilS, "")

\* Vec2Like::length::<F>
length(T, v) == SqrtOfSquares(Cast(T, v.x), Cast(T, v.y))

\* F::from(d) for the difference d the subtraction in T returned, unless the
\* subtraction panicked.
CastDiff(T, d) == IF d.ok THEN Cast(T, d.v) ELSE d

\* distance that forgets to subtract self: the length of `other`.
distance_from_origin(T, checks, self, other) == length(T, other)

\* Vec2Like::distance::<F>
distance(T, checks, self, other) ==
  SqrtOfSquares(CastDiff(T, Sub(T, checks, other.x, self.x)),
                CastDiff(T, Sub(T, checks, other.y, self.y)))

\* Vec2::new(x, y) of the two absolute values, unless one of them panicked.
AbsOf(x, y) ==
  IF ~x.ok THEN Panic(x.why)
  ELSE IF ~y.ok THEN Panic(y.why)
  ELSE Outcome("vec", Vec2_new(x.v, y.v).x, Vec2_new(x.v, y.v).y, "")

\* Vec2Like::abs (T: Signed)
abs(T, checks, v) == AbsOf(ScalarAbs(T, checks, v.x), ScalarAbs(T, checks, v.y))

\* normalize without its zero-length check.
NormalizeUnchecked(len, x, y) ==
  IF len.kind = "panic" THEN len
  ELSE IF ~x.ok THEN Panic(x.why)
  ELSE IF ~y.ok THEN Panic(y.why)
  ELSE Outcome("unit", FDiv(x.v, len.x), FDiv(y.v, len.x), "")

\* The body of normalize after `let len = self.length::<F>()`: the zero
\* check, the two casts and the division.
NormalizeWith(len, x, y) ==
  IF len.kind = "panic" THEN len
  ELSE IF FIsZero(len.x)
    THEN Outcome("err", NilS, NilS, "Cannot normalize a zero-length vector")
  ELSE IF ~x.ok THEN Panic(x.why)
  ELSE IF ~y.ok THEN Panic(y.why)
  ELSE Outcome("unit", FDiv(x.v, len.x), FDiv(y.v, len.x), "")

\* Vec2::normalize::<F>
normalize(T, v) == NormalizeWith(length(T, v), Cast(T, v.x), Cast(T, v.y))

\* UnitVec2::new as a bare-field constructor: the components cast to F and
\* stored as they are.
UnitVec2_new_bare(T, x, y) ==
  IF ~Cast(T, x).ok \/ ~Cast(T, y).ok THEN Panic("cast failed")
  ELSE Outcome("unit", Cast(T, x).v, Cast(T, y).v, "")

\* UnitVec2::new
UnitVec2_new(T, x, y) == normalize(T, Vec2_new(x, y))

\* from_vec2 that takes the components in the wrong order.
from_vec2_swapped(T, v) == normalize(T, Vec2_new(v.y, v.x))

\* UnitVec2::from_vec2
from_vec2(T, v) == normalize(T, v)

\* UnitVec2::as_vec2
as_vec2(u) == Vec2_new(u.x, u.y)

\* Player::new
NoPlayer == [position |-> NoVec, direction |-> NoVec]
Player_new(position, direction) == [position |-> position, direction |-> direction]
\* ------------------------------------------------------ the program
\* One use of the library: a component type T and a build are fixed, a
\* Vec2<T> is constructed, and the operations act on it.
VARIABLES
  T,        \* the component type
  checks,   \* the build's overflow checks: TRUE (debug) or FALSE (release)
  v,        \* the Vec2<T> constructed
  op,       \* the operation that ran last
  arg,      \* `other` of the last distance call
  out,      \* what the last operation returned
  unit,     \* the UnitVec2<F> held (NoVec: none)
  w,        \* the Vec2<F> as_vec2 returned (NoVec: none)
  player    \* the Player<T, F> built (NoPlayer: none)

vars == <<T, checks, v, op, arg, out, unit, w, player>>

Constructors == {"Vec2::new", "Vec2::from((x, y))", "Vec2::from([x, y])"}
Normalizers == {"normalize", "UnitVec2::new", "UnitVec2::from_vec2"}

Init ==
  /\ T \in Types
  /\ checks \in BOOLEAN
  /\ v = NoVec
  /\ op = "start"
  /\ arg = NoVec
  /\ out = NoOut
  /\ unit = NoVec
  /\ w = NoVec
  /\ player = NoPlayer

\* let v = Vec2::new(x, y)
Vec2New(x, y) ==
  /\ op = "start"
  /\ v' = Vec2_new(x, y)
  /\ op' = "Vec2::new"
  /\ UNCHANGED <<T, checks, arg, out, unit, w, player>>

\* let v: Vec2<T> = (x, y).into()
Vec2FromTuple(x, y) ==
  /\ op = "start"
  /\ v' = from_tuple(<<x, y>>)
  /\ op' = "Vec2::from((x, y))"
  /\ UNCHANGED <<T, checks, arg, out, unit, w, player>>

\* let v: Vec2<T> = [x, y].into()
Vec2FromArray(x, y) ==
  /\ op = "start"
  /\ v' = from_array(<<x, y>>)
  /\ op' = "Vec2::from([x, y])"
  /\ UNCHANGED <<T, checks, arg, out, unit, w, player>>

\* let (x, y) = v.into()
IntoTuple ==
  /\ op \in Constructors
  /\ op' = "into"
  /\ out' = LET t == into_tuple(v) IN Outcome("tuple", t[1], t[2], "")
  /\ UNCHANGED <<T, checks, v, arg, unit, w, player>>

\* v.length::<F>()
Length ==
  /\ op \in Constructors
  /\ op' = "length"
  /\ out' = length(T, v)
  /\ UNCHANGED <<T, checks, v, arg, unit, w, player>>

\* v.distance::<F>(&other)
Distance(other) ==
  /\ op \in Constructors
  /\ op' = "distance"
  /\ arg' = other
  /\ out' = distance(T, checks, v, other)
  /\ UNCHANGED <<T, checks, v, unit, w, player>>

\* v.abs(), which compiles only for T: Signed
AbsOp ==
  /\ op \in Constructors
  /\ T \in SignedTypes
  /\ op' = "abs"
  /\ out' = abs(T, checks, v)
  /\ UNCHANGED <<T, checks, v, arg, unit, w, player>>

\* The UnitVec2 a Result holds when it is Ok.
Unwrapped(r) == IF r.kind = "unit" THEN [x |-> r.x, y |-> r.y] ELSE NoVec

\* v.normalize::<F>()
Normalize ==
  /\ op \in Constructors
  /\ op' = "normalize"
  /\ out' = normalize(T, v)
  /\ unit' = Unwrapped(out')
  /\ UNCHANGED <<T, checks, v, arg, w, player>>

\* UnitVec2::<F>::new(x, y), on the components v was built from
UnitNew ==
  /\ op \in Constructors
  /\ op' = "UnitVec2::new"
  /\ out' = UnitVec2_new(T, v.x, v.y)
  /\ unit' = Unwrapped(out')
  /\ UNCHANGED <<T, checks, v, arg, w, player>>

\* UnitVec2::<F>::from_vec2(v)
FromVec2 ==
  /\ op \in Constructors
  /\ op' = "UnitVec2::from_vec2"
  /\ out' = from_vec2(T, v)
  /\ unit' = Unwrapped(out')
  /\ UNCHANGED <<T, checks, v, arg, w, player>>

\* unit.length::<F>(): UnitVec2<F> is a Vec2Like<F>
UnitLength ==
  /\ op \in Normalizers
  /\ unit # NoVec
  /\ op' = "unit.length"
  /\ out' = length("f", unit)
  /\ UNCHANGED <<T, checks, v, arg, unit, w, player>>

\* let w = unit.as_vec2()
AsVec2 ==
  /\ op \in Normalizers
  /\ unit # NoVec
  /\ op' = "as_vec2"
  /\ w' = as_vec2(unit)
  /\ out' = Outcome("vec", w'.x, w'.y, "")
  /\ UNCHANGED <<T, checks, v, arg, unit, player>>

\* w.length::<F>()
DownLength ==
  /\ op = "as_vec2"
  /\ op' = "as_vec2.length"
  /\ out' = length("f", w)
  /\ UNCHANGED <<T, checks, v, arg, unit, w, player>>

\* Player::new(v, unit)
PlayerNew ==
  /\ op \in Normalizers
  /\ unit # NoVec
  /\ op' = "Player::new"
  /\ player' = Player_new(v, unit)
  /\ out' = NoOut
  /\ UNCHANGED <<T, checks, v, arg, unit, w>>

Next ==
  \/ \E x \in Comps(T), y \in Comps(T) : Vec2New(x, y)
  \/ \E x \in Comps(T), y \in Comps(T) : Vec2FromTuple(x, y)
  \/ \E x \in Comps(T), y \in Comps(T) : Vec2FromArray(x, y)
  \/ IntoTuple
  \/ Length
  \/ \E other \in Vecs(T) : Distance(other)
  \/ AbsOp
  \/ Normalize
  \/ UnitNew
  \/ FromVec2
  \/ UnitLength
  \/ AsVec2
  \/ DownLength
  \/ PlayerNew

Spec == Init /\ [][Next]_vars
\* ------------------------------------------------------- properties
\* s == T::zero()
IsZero(s) == s.c \in {"int", "fin"} /\ s.n = 0
ZeroVec(a) == IsZero(a.x) /\ IsZero(a.y)
\* A vector that was constructed and has a component that is not zero.
NonzeroVec(a) == a # NoVec /\ ~ZeroVec(a)
\* Neither an infinity nor a NaN.
IsFinite(s) == s.c \in {"int", "fin"}
FiniteVec(a) == IsFinite(a.x) /\ IsFinite(a.y)
\* The component types the standard library provides.
Primitive == {"i", "u", "f"}
IsFloat(r, f) == r = Outcome("float", f, NilS, "")

\* One unit in the last place of 1.0.
Ulp1 == (2 * Unit) \div MantLimit
\* The tolerance on a length of 1. The claims' 1e-6 is some 8 ulp of f32;
\* at MantBits bits the roundings of length and normalize take up to 1 ulp,
\* and the model allows 2.
Eps == 2 * Ulp1
NearOne(r) ==
  r.kind = "float" /\ r.x.c = "fin" /\ Abs(r.x.n - Unit) <= Eps

\* C1: normalizing the zero vector, through normalize, UnitVec2::new or
\* UnitVec2::from_vec2, for every component type, returns the zero-length
\* error and no UnitVec2.
C1_ZeroVectorIsAnError ==
  (op \in Normalizers /\ ZeroVec(v)) =>
    /\ out = Outcome("err", NilS, NilS, "Cannot normalize a zero-length vector")
    /\ unit = NoVec

C1_Witness ==
  /\ op = "UnitVec2::new"
  /\ T = "f"
  /\ ZeroVec(v)
  /\ out.kind = "err"

\* C2: for every vector with a component that is not zero, of every
\* primitive component type, normalize (and the two constructors that call
\* it) returns Ok, and the length of the UnitVec2 returned is 1 within the
\* tolerance.
C2_NonzeroNormalizesToUnit ==
  (T \in Primitive /\ NonzeroVec(v)) =>
    /\ op \in Normalizers => out.kind = "unit"
    /\ op = "unit.length" => NearOne(out)

\* A component whose cast to F is not representable.
CastFails(s) == ~Cast(T, s).ok
\* The cast of a difference is reached only when the subtraction returned.
DiffCastFails(a, b) ==
  Sub(T, checks, a, b).ok /\ ~Cast(T, Sub(T, checks, a, b).v).ok

\* C3: when a cast from T to F is not representable, length, distance and
\* normalize return an explicit failure to the caller and do not panic.
C3_CastFailureIsReported ==
  /\ (op \in {"length", "normalize"} /\ (CastFails(v.x) \/ CastFails(v.y)))
       => out.kind = "err"
  /\ (op = "distance" /\ (DiffCastFails(arg.x, v.x) \/ DiffCastFails(arg.y, v.y)))
       => out.kind = "err"

\* C4: for all a and b of a primitive component type, a.distance(&b) and
\* b.distance(&a) both return, and return the same value.
C4_DistanceIsSymmetric ==
  (op = "distance" /\ T \in Primitive) =>
    /\ out.kind = "float"
    /\ distance(T, checks, arg, v) = out

\* The sign bit is clear (as it is in the NaN that f32::abs returns).
NonNegative(s) == s.c = "nan" \/ s.n >= 0

\* C5: for every signed component type and every vector, the minimum of
\* the integer type included, abs returns a vector with x and y
\* non-negative.
C5_AbsIsNonNegative ==
  op = "abs" =>
    /\ out.kind = "vec"
    /\ NonNegative(out.x)
    /\ NonNegative(out.y)

\* C6: every UnitVec2 that exists, the direction of the Player included, is
\* the value a successful normalize of the constructed vector returned; it
\* is never a value built another way, and never changes afterwards.
C6_UnitVec2OnlyFromNormalize ==
  /\ unit # NoVec => normalize(T, v) = Outcome("unit", unit.x, unit.y, "")
  /\ player # NoPlayer =>
       /\ player.position = v
       /\ normalize(T, v) =
            Outcome("unit", player.direction.x, player.direction.y, "")

C6_Witness ==
  /\ op = "Player::new"
  /\ T = "u"
  /\ v = Vec2_new(IntS(3), IntS(4))
  /\ player.direction = [x |-> Round(1, 3 * Unit, 5), y |-> Round(1, 4 * Unit, 5)]

\* C7: UnitVec2::new(x, y) and UnitVec2::from_vec2(Vec2::new(x, y)) return
\* what Vec2::new(x, y).normalize() returns: Ok with the same UnitVec2, the
\* same Err, or the same panic.
C7_ConstructorsEqualNormalize ==
  /\ op = "UnitVec2::new" =>
       /\ out = normalize(T, Vec2_new(v.x, v.y))
       /\ unit = Unwrapped(out)
  /\ op = "UnitVec2::from_vec2" =>
       /\ out = normalize(T, Vec2_new(v.x, v.y))
       /\ unit = Unwrapped(out)

C7_Witness ==
  /\ op = "UnitVec2::from_vec2"
  /\ T = "i"
  /\ v = Vec2_new(IntS(-3), IntS(1))
  /\ out.kind = "unit"
  /\ out.x.n < 0 /\ out.y.n > 0

\* C8: for every v that normalize accepts, as_vec2 returns a Vec2<F> with
\* the x and y of the unit vector, and the length of that Vec2 is 1. The 1
\* is read with the tolerance the specification gives a unit vector; read
\* as an exact 1 the claim says more, and fails wherever this one does.
C8_RoundTripHasLengthOne ==
  /\ op = "as_vec2" => (w.x = unit.x /\ w.y = unit.y)
  /\ op = "as_vec2.length" => NearOne(out)

\* C9 as stated: for every vector a of every component type, a.distance(&a)
\* returns 0.
C9_DistanceToSelfIsZero ==
  (op = "distance" /\ arg = v) => IsFloat(out, FZero)

\* C9, amended: for every vector a whose components are finite (neither an
\* infinity nor a NaN), of every component type, a.distance(&a) returns 0.
C9_FiniteDistanceToSelfIsZero ==
  (op = "distance" /\ arg = v /\ FiniteVec(v)) => IsFloat(out, FZero)

C9_Witness ==
  /\ op = "distance"
  /\ arg = v
  /\ T = "f"
  /\ v = Vec2_new(Fin(MaxN), Fin(-1))
  /\ IsFloat(out, FZero)

\* -1, 0 or 1 for a number, and NaN for a NaN.
SignOf(s) == IF s.c = "nan" THEN NaN ELSE IntS(Sgn(s.n))

\* C10: when normalize returns Ok, the components are the input's cast to F
\* and divided by its length, (3, 4) gives (0.6, 0.8), and each component
\* has the sign of the input component, a zero staying zero.
C10_NormalizeKeepsDirection ==
  (op = "normalize" /\ out.kind = "unit") =>
    /\ out.x = FDiv(Cast(T, v.x).v, length(T, v).x)
    /\ out.y = FDiv(Cast(T, v.y).v, length(T, v).x)
    /\ v = Vec2_new(IntS(3), IntS(4)) =>
         (out.x = Round(1, 3 * Unit, 5) /\ out.y = Round(1, 4 * Unit, 5))
    /\ SignOf(out.x) = SignOf(v.x)
    /\ SignOf(out.y) = SignOf(v.y)
====
